---------------------------- MODULE Spec2Model ----------------------------
(***************************************************************************)
(* A model of src/src/main.rs (cbrewster/raytrace): ray/sphere             *)
(* intersection, the scene's nearest-hit query, shading with hard shadows, *)
(* and the render loop that fills the RGB byte buffer.                     *)
(*                                                                         *)
(* Numbers.  The program computes in f32, and so does the model: a number  *)
(* is [m, e], standing for m * 2^e, with m = 0 and e = 0 for zero and      *)
(* 2^23 <= |m| < 2^24 otherwise, and every +, -, *, / and sqrt is the      *)
(* exact result rounded to the nearest such number, ties to the even       *)
(* mantissa, as IEEE 754 binary32 does.  The exponent is not bounded:      *)
(* the inputs stay far from overflow and from the subnormal numbers, so    *)
(* infinities and NaN do not occur; -0.0 is not told from 0.0, which no    *)
(* comparison of the program tells apart either.  TLC's integers have 32   *)
(* bits, so a product of two mantissas is formed from 12-bit halves and a  *)
(* quotient or a square root digit by digit.                               *)
(***************************************************************************)
EXTENDS Integers, Sequences, FiniteSets, TLC

(***************************************************************************)
(* f32.                                                                    *)
(***************************************************************************)
\* The bits of an f32's significand, the hidden one included.
MantissaBits == 24

Top == 2^MantissaBits

Limb == 2^(MantissaBits \div 2)

Flt(m, e) == [m |-> m, e |-> e]

Zero == Flt(0, 0)

Neg(p) == Flt(-p.m, p.e)

Abs(i) == IF i < 0 THEN -i ELSE i

RECURSIVE BitLength(_)
BitLength(n) == IF n = 0 THEN 0 ELSE 1 + BitLength(n \div 2)

\* A mantissa rounded up to 2^24 is 2^23 with the exponent one more.
Carry(m, e) == IF m = Top THEN Flt(Top \div 2, e + 1) ELSE Flt(m, e)

\* Round to nearest, ties to even: q is the kept part, r what is dropped.
RoundUp(q, r, half) == r > half \/ (r = half /\ q % 2 = 1)

\* n * 2^e with the last s bits of n rounded away.
Nearest(n, e, s) ==
    Carry(n \div 2^s + (IF RoundUp(n \div 2^s, n % 2^s, 2^(s - 1)) THEN 1 ELSE 0),
          e + s)

\* n * 2^e for n of k bits.
Normal(n, e, k) ==
    IF k <= MantissaBits
    THEN Flt(n * 2^(MantissaBits - k), e - (MantissaBits - k))
    ELSE Nearest(n, e, k - MantissaBits)

\* The number of bits of n; the results of the operations have 26 to 28.
Bits(n) ==
    IF n >= 8 * Top THEN 3 + MantissaBits + BitLength(n \div (8 * Top))
    ELSE IF n >= 4 * Top THEN 3 + MantissaBits
    ELSE IF n >= 2 * Top THEN 2 + MantissaBits
    ELSE BitLength(n)

\* The f32 nearest to n * 2^e, for n >= 0.
RoundNat(n, e) == IF n = 0 THEN Zero ELSE Normal(n, e, Bits(n))

Round(n, e) == IF n < 0 THEN Neg(RoundNat(-n, e)) ELSE RoundNat(n, e)

\* An integer literal or an integer `as f32`.
F(i) == Round(i, 0)

\* The bit that records that something nonzero was dropped.
Sticky(r) == IF r = 0 THEN 0 ELSE 1

\* Long division by d: q and r are the quotient and remainder so far, at
\* the scale 2^e; four bits are added at a time until q has two bits more
\* than a mantissa, and the remainder left makes the sticky bit.
RECURSIVE Quotient(_, _, _, _)
Quotient(q, r, d, e) ==
    IF q >= 2 * Top THEN RoundNat(2 * q + Sticky(r), e - 1)
    ELSE Quotient(16 * q + (16 * r) \div d, (16 * r) % d, d, e - 4)

\* A decimal literal n/d (0.0002 is 1/5000): the f32 nearest to it.
Frac(n, d) ==
    IF n = 0 THEN Zero
    ELSE IF n < 0 THEN Neg(Quotient((-n) \div d, (-n) % d, d, 0))
    ELSE Quotient(n \div d, n % d, d, 0)

DivNat(a, b, e) == Quotient(a \div b, a % b, b, e)

\* p / q for q # 0.
Div(p, q) ==
    IF p.m = 0 THEN Zero
    ELSE IF (p.m < 0) # (q.m < 0)
         THEN Neg(DivNat(Abs(p.m), Abs(q.m), p.e - q.e))
         ELSE DivNat(Abs(p.m), Abs(q.m), p.e - q.e)

\* The product high * Limb^2 + midlow * Limb + lowlow, cut to its upper 26
\* bits and a sticky bit, and rounded.
MulRound(high, midlow, lowlow, e) ==
    RoundNat(2 * (4 * high + midlow \div (Limb \div 4))
                 + Sticky((midlow % (Limb \div 4)) + lowlow),
             e + MantissaBits - 3)

MulCarry(high, mid, lowlow, e) ==
    MulRound(high + mid \div Limb, mid % Limb, lowlow, e)

MulJoin(high, mid, low, e) ==
    MulCarry(high, mid + low \div Limb, low % Limb, e)

MulLimbs(a1, a0, b1, b0, e) ==
    MulJoin(a1 * b1, a1 * b0 + a0 * b1, a0 * b0, e)

MulNat(a, b, e) == MulLimbs(a \div Limb, a % Limb, b \div Limb, b % Limb, e)

Mul(p, q) ==
    IF p.m = 0 \/ q.m = 0 THEN Zero
    ELSE IF (p.m < 0) # (q.m < 0)
         THEN Neg(MulNat(Abs(p.m), Abs(q.m), p.e + q.e))
         ELSE MulNat(Abs(p.m), Abs(q.m), p.e + q.e)

Jam(q, r) == IF r # 0 /\ q % 2 = 0 THEN q + 1 ELSE q

\* The mantissa a with three more bits, moved d bits down, the last bit
\* sticky.
Shifted(a, d) ==
    IF d >= MantissaBits + 3 THEN 1
    ELSE Jam((8 * a) \div 2^d, (8 * a) % 2^d)

\* big + small, big's exponent being the larger by d.
AddAligned(big, small, d) ==
    Round(8 * big.m + (IF small.m < 0 THEN -Shifted(-small.m, d)
                                      ELSE Shifted(small.m, d)),
          big.e - 3)

Add(p, q) ==
    IF p.m = 0 THEN q
    ELSE IF q.m = 0 THEN p
    ELSE IF p.e >= q.e THEN AddAligned(p, q, p.e - q.e)
    ELSE AddAligned(q, p, q.e - p.e)

Sub(p, q) == Add(p, Neg(q))

Lt(p, q) ==
    IF p.m = 0 THEN q.m > 0
    ELSE IF q.m = 0 THEN p.m < 0
    ELSE IF (p.m < 0) # (q.m < 0) THEN p.m < 0
    ELSE IF p.m > 0 THEN p.e < q.e \/ (p.e = q.e /\ p.m < q.m)
    ELSE p.e > q.e \/ (p.e = q.e /\ p.m < q.m)

Le(p, q) == ~Lt(q, p)

\* f32::max(p, q)
Max(p, q) == IF Lt(p, q) THEN q ELSE p

\* The integer square root: the largest s with s * s <= i, by bisection.
RECURSIVE ISqrtIn(_, _, _)
ISqrtIn(i, lo, hi) ==
    IF lo >= hi THEN lo
    ELSE IF ((lo + hi + 1) \div 2) * ((lo + hi + 1) \div 2) <= i
         THEN ISqrtIn(i, (lo + hi + 1) \div 2, hi)
         ELSE ISqrtIn(i, lo, (lo + hi + 1) \div 2 - 1)

ISqrt(i) == ISqrtIn(i, 0, IF i < 46340 THEN i ELSE 46340)

\* The square root digit by digit: n * 4^k = root^2 + rem at every step.
RECURSIVE SqrtDigits(_, _, _)
SqrtDigits(root, rem, e) ==
    IF root >= 2 * Top THEN RoundNat(2 * root + Sticky(rem), e - 1)
    ELSE IF 4 * rem >= 4 * root + 1
         THEN SqrtDigits(2 * root + 1, 4 * rem - (4 * root + 1), e - 1)
         ELSE SqrtDigits(2 * root, 4 * rem, e - 1)

SqrtFrom(n, root, e) == SqrtDigits(root, n - root * root, e)

SqrtEven(n, e) == SqrtFrom(n, ISqrt(n), e \div 2)

\* f32::sqrt(p) for p >= 0.
Sqrt(p) ==
    IF p.m = 0 THEN Zero
    ELSE IF p.e % 2 = 0 THEN SqrtEven(p.m, p.e)
    ELSE SqrtEven(2 * p.m, p.e - 1)

(***************************************************************************)
(* Vector3 / Point3: triples of numbers.                                   *)
(***************************************************************************)
Vec(x, y, z) == <<F(x), F(y), F(z)>>

VAdd(u, v) == <<Add(u[1], v[1]), Add(u[2], v[2]), Add(u[3], v[3])>>

VSub(u, v) == <<Sub(u[1], v[1]), Sub(u[2], v[2]), Sub(u[3], v[3])>>

Scale(k, v) == <<Mul(k, v[1]), Mul(k, v[2]), Mul(k, v[3])>>

\* Vector3::dot: the three products summed in order.
Dot(u, v) == Add(Add(Mul(u[1], v[1]), Mul(u[2], v[2])), Mul(u[3], v[3]))

NormSquared(v) == Dot(v, v)

\* Vector3::normalize: v / v.norm(), the norm being sqrt(v.dot(v)), for v # 0.
DivideBy(v, norm) == <<Div(v[1], norm), Div(v[2], norm), Div(v[3], norm)>>

Normalize(v) == DivideBy(v, Sqrt(NormSquared(v)))

(***************************************************************************)
(* The value types of lines 12-63.  Option<T> is None or Some(T).          *)
(***************************************************************************)
None == [some |-> FALSE]

Some(v) == [some |-> TRUE, value |-> v]

SHADOW_BIAS == Frac(1, 5000)

Ray_new(origin, direction) == [origin |-> origin, direction |-> direction]

point_at_distance(ray, distance) ==
    VAdd(ray.origin, Scale(distance, ray.direction))

Light_new(position, intensity) ==
    [position |-> position, intensity |-> intensity]

Sphere_new(position, radius) == [position |-> position, radius |-> radius]

Object_sphere(position, radius, color) ==
    [shape    |-> [variant |-> "Sphere", sphere |-> Sphere_new(position, radius)],
     material |-> [color |-> color]]

Camera_new(position, look_at) == [position |-> position, look_at |-> look_at]

Scene_new(objects, camera, lights) ==
    [objects |-> objects, camera |-> camera, lights |-> lights]

(***************************************************************************)
(* <Sphere as Trace>::intersect, lines 108-135.  The quadratic             *)
(* a t^2 + b t + c = 0 of the ray against the sphere.                      *)
(***************************************************************************)
QuadA(sphere, ray) == Dot(ray.direction, ray.direction)

QuadB(sphere, ray) ==
    Mul(F(2), Dot(VSub(ray.origin, sphere.position), ray.direction))

QuadC(sphere, ray) ==
    LET oc == VSub(ray.origin, sphere.position)
    IN  Sub(Dot(oc, oc), Mul(sphere.radius, sphere.radius))

\* Line 113: b * b - 4.0 * a * c
DiscriminantOf(a, b, c) == Sub(Mul(b, b), Mul(Mul(F(4), a), c))

Discriminant(sphere, ray) ==
    DiscriminantOf(QuadA(sphere, ray), QuadB(sphere, ray), QuadC(sphere, ray))

\* Lines 120-121: t0 and t1, disc2 being the discriminant's square root.
Root0(a, b, disc2) == Div(Sub(Neg(b), disc2), Mul(F(2), a))

Root1(a, b, disc2) == Div(Add(Neg(b), disc2), Mul(F(2), a))

\* Line 115 with the tangent ray counted as a hit.
NoRealHitTangentHits(discriminant) == Lt(discriminant, Zero)

\* Line 115: if discriminant <= 0.0 { return None; }
NoRealHit(discriminant) == Le(discriminant, Zero)

\* Line 122: if t0 < 0.0 && t1 < 0.0 { return None; }
BothBehind(t0, t1) == Lt(t0, Zero) /\ Lt(t1, Zero)

\* Line 126 always taking the smaller root.
SelectDistanceAlwaysT0(t0, t1) == t0

\* Line 126 with t0 <= 0.0 for t0 < 0.0.
SelectDistanceLe(t0, t1) == IF Le(t0, Zero) THEN t1 ELSE t0

\* Line 126: let distance = if t0 < 0.0 { t1 } else { t0 };
SelectDistance(t0, t1) == IF Lt(t0, Zero) THEN t1 ELSE t0

\* Lines 128-134: the hit at the chosen distance.
HitAt(sphere, ray, distance) ==
    Some([distance |-> distance,
          normal   |-> Normalize(VSub(point_at_distance(ray, distance),
                                      sphere.position))])

\* Lines 122-126, t0 and t1 in hand.
HitOfRoots(sphere, ray, t0, t1) ==
    IF BothBehind(t0, t1) THEN None
    ELSE HitAt(sphere, ray, SelectDistance(t0, t1))

\* Lines 115-121, a, b and the discriminant in hand.
HitOfDiscriminant(sphere, ray, a, b, discriminant) ==
    IF NoRealHit(discriminant) THEN None
    ELSE HitOfRoots(sphere, ray, Root0(a, b, Sqrt(discriminant)),
                    Root1(a, b, Sqrt(discriminant)))

\* Line 113, a, b and c in hand.
HitOfQuadratic(sphere, ray, a, b, c) ==
    HitOfDiscriminant(sphere, ray, a, b, DiscriminantOf(a, b, c))

Sphere_intersect(sphere, ray) ==
    HitOfQuadratic(sphere, ray, QuadA(sphere, ray), QuadB(sphere, ray),
                   QuadC(sphere, ray))

\* <Object as Trace>::intersect, lines 90-96: the match on the shape.
Object_intersect(object, ray) ==
    CASE object.shape.variant = "Sphere" ->
             Sphere_intersect(object.shape.sphere, ray)

(***************************************************************************)
(* Scene::intersect, lines 180-185.  filter_map keeps, in the order of the *)
(* objects, the (hit, object) pairs of the objects that are hit; an object *)
(* reference is modelled by the object's index.  Iterator::min_by folds    *)
(* the pairs with cmp::min_by, which keeps its first argument unless the   *)
(* comparison says Greater.                                                *)
(***************************************************************************)
\* The closure of line 183 applied to object i, r being its intersect's result.
FilterMapItem(r, i) ==
    IF r.some THEN <<[hit |-> r.value, object |-> i]>> ELSE << >>

RECURSIVE FilterMapHits(_, _, _)
FilterMapHits(objects, ray, i) ==
    IF i > Len(objects) THEN << >>
    ELSE FilterMapItem(Object_intersect(objects[i], ray), i)
             \o FilterMapHits(objects, ray, i + 1)

\* cmp::min_by keeping the later of two equal elements.
CmpMinByLast(v1, v2) ==
    IF Lt(v2.hit.distance, v1.hit.distance) \/ v2.hit.distance = v1.hit.distance
    THEN v2 ELSE v1

\* cmp::min_by(v1, v2, |a, b| a.0.distance.partial_cmp(&b.0.distance).unwrap())
CmpMinBy(v1, v2) ==
    IF Lt(v2.hit.distance, v1.hit.distance) THEN v2 ELSE v1

RECURSIVE MinByFrom(_, _, _)
MinByFrom(pairs, acc, i) ==
    IF i > Len(pairs) THEN acc
    ELSE MinByFrom(pairs, CmpMinBy(acc, pairs[i]), i + 1)

\* Iterator::min_by on the pairs: None for no pair.
MinBy(pairs) ==
    IF pairs = << >> THEN None ELSE Some(MinByFrom(pairs, pairs[1], 2))

Scene_intersect(objects, ray) == MinBy(FilterMapHits(objects, ray, 1))

(***************************************************************************)
(* Scene::trace, lines 154-178.                                            *)
(***************************************************************************)
Black == <<Zero, Zero, Zero>>

\* Line 160: the hit point moved off the surface along the normal.
HitPoint(ray, hit) ==
    VAdd(point_at_distance(ray, hit.distance), Scale(SHADOW_BIAS, hit.normal))

\* Line 164.
ShadowRayDirection(hit_point, light) ==
    Normalize(VSub(light.position, hit_point))

\* Line 167 with the shadow ray stopped at the light.
InShadowUpToLight(objects, shadow_ray, light) ==
    LET occluder == Scene_intersect(objects, shadow_ray)
        to_light == Sqrt(NormSquared(VSub(light.position, shadow_ray.origin)))
    IN  occluder.some /\ Lt(occluder.value.hit.distance, to_light)

\* Line 167: self.intersect(&shadow_ray).is_some(), for the light's shadow ray.
InShadow(objects, shadow_ray, light) ==
    Scene_intersect(objects, shadow_ray).some

\* Line 172.
Shade(normal, shadow_ray_direction) ==
    Max(Zero, Dot(normal, shadow_ray_direction))

\* Line 174 with = for +=.
AccumulateOverwrite(color, shade, material_color, intensity) ==
    Scale(intensity, Scale(shade, material_color))

\* Line 174: color += shade * object.material.color * light.intensity;
Accumulate(color, shade, material_color, intensity) ==
    VAdd(color, Scale(intensity, Scale(shade, material_color)))

\* Lines 165-174: the loop body for one light, its direction in hand.
LightStep(objects, hit, object, hit_point, light, shadow_ray_direction, color) ==
    IF InShadow(objects, Ray_new(hit_point, shadow_ray_direction), light)
    THEN color
    ELSE Accumulate(color, Shade(hit.normal, shadow_ray_direction),
                    object.material.color, light.intensity)

\* The loop of lines 163-175 from light i on, color being the sum so far.
RECURSIVE TraceLights(_, _, _, _, _, _, _)
TraceLights(objects, lights, hit, object, hit_point, color, i) ==
    IF i > Len(lights) THEN color
    ELSE TraceLights(objects, lights, hit, object, hit_point,
             LightStep(objects, hit, object, hit_point, lights[i],
                       ShadowRayDirection(hit_point, lights[i]), color),
             i + 1)

\* Lines 155-177, the result of self.intersect(ray) in hand.
ShadeFound(objects, lights, ray, found) ==
    IF ~found.some THEN Black
    ELSE TraceLights(objects, lights, found.value.hit,
                     objects[found.value.object],
                     HitPoint(ray, found.value.hit), Black, 1)

Scene_trace(objects, lights, ray) ==
    ShadeFound(objects, lights, ray, Scene_intersect(objects, ray))

(***************************************************************************)
(* main, lines 188-254: the buffer and the render loop.                    *)
(*                                                                         *)
(* WIDTH and HEIGHT are 1600 and 1200 in the source (lines 188-189); the   *)
(* model renders a small image.                                            *)
(***************************************************************************)
WIDTH == 3

HEIGHT == 2

\* Line 215: the length of scene_buffer.
BufferLen == WIDTH * HEIGHT * 3

\* Line 247 without the factor 3.
PixelIndexNoStride(x, y) == y * WIDTH + x

\* Line 247: let index = ((y * WIDTH + x) * 3) as usize;
PixelIndex(x, y) == (y * WIDTH + x) * 3

(***************************************************************************)
(* Lines 250-252: (color.x * 255.0) as u8.  A float-to-integer `as` cast   *)
(* truncates toward zero.  For a value outside 0..255 the cast saturates   *)
(* in a build by Rust 1.45 or later and was undefined behaviour before,    *)
(* where the x86 code kept the low byte of the truncated integer.  The     *)
(* build decides which; the model draws it at Init (cast).                 *)
(***************************************************************************)
CastSemantics == {"saturating", "wrapping"}

\* The integer part of p, toward zero.
Whole(p) ==
    IF p.e >= 0 THEN p.m * 2^p.e
    ELSE IF -p.e >= MantissaBits THEN 0
    ELSE IF p.m < 0 THEN -((-p.m) \div 2^(-p.e))
    ELSE p.m \div 2^(-p.e)

\* Rounding to the nearest integer, for truncation.
TruncRound(p) == Whole(Add(p, Frac(1, 2)))

Trunc(p) == Whole(p)

\* The integer t as a u8.
IntAsU8(t, semantics) ==
    IF 0 <= t /\ t <= 255 THEN t
    ELSE IF semantics = "saturating"
         THEN (IF t < 0 THEN 0 ELSE 255)
         ELSE t % 256

AsU8(p, semantics) == IntAsU8(Trunc(p), semantics)

Channel(component, semantics) == AsU8(Mul(component, F(255)), semantics)

(***************************************************************************)
(* Lines 217-226 and 232-246: the primary ray of pixel (x, y).             *)
(*                                                                         *)
(* Matrix4::face_towards(eye, target, up) is nalgebra's: the rotation      *)
(* whose columns are xaxis, yaxis, zaxis, with zaxis = (target - eye)      *)
(* normalized, xaxis = up x zaxis normalized, yaxis = zaxis x xaxis        *)
(* normalized, and the translation eye.  The matrix times a Point4 adds    *)
(* the columns scaled by the point's coordinates, in order.                *)
(***************************************************************************)
\* Lines 217-218: tan((PI / 4.0) / 2.0), the f32 0.41421357.
fov_adjust == Flt(13898701, -25)

\* Line 220.
aspect_ratio == Div(F(WIDTH), F(HEIGHT))

\* Vector3::cross
Cross(u, v) ==
    <<Sub(Mul(u[2], v[3]), Mul(u[3], v[2])),
      Sub(Mul(u[3], v[1]), Mul(u[1], v[3])),
      Sub(Mul(u[1], v[2]), Mul(u[2], v[1]))>>

FaceTowardsAxes(eye, xaxis, zaxis) ==
    [xaxis |-> xaxis, yaxis |-> Normalize(Cross(zaxis, xaxis)),
     zaxis |-> zaxis, translation |-> eye]

FaceTowardsDir(eye, zaxis, up) ==
    FaceTowardsAxes(eye, Normalize(Cross(up, zaxis)), zaxis)

face_towards(eye, target, up) ==
    FaceTowardsDir(eye, Normalize(VSub(target, eye)), up)

\* Lines 222-226.
camera_matrix(camera) ==
    face_towards(camera.position, camera.look_at, <<F(0), F(1), F(0)>>)

\* matrix * Point4::new(px, py, pz, 1.0), the first three coordinates.
Transform(matrix, px, py, pz) ==
    VAdd(VAdd(VAdd(Scale(px, matrix.xaxis), Scale(py, matrix.yaxis)),
              Scale(pz, matrix.zaxis)),
         matrix.translation)

\* Line 232 (and 233 with y and HEIGHT).
Norm(x, size) == Div(Add(F(x), Frac(1, 2)), F(size))

\* Line 235.
ScreenX(norm_x) ==
    Mul(Mul(Sub(Mul(F(2), norm_x), F(1)), aspect_ratio), fov_adjust)

\* Line 237.
ScreenY(norm_y) == Mul(Sub(F(1), Mul(F(2), norm_y)), fov_adjust)

\* Lines 241-246, the matrix and the screen point in hand.
RayThrough(matrix, screen_x, screen_y) ==
    Ray_new(Transform(matrix, Zero, Zero, Zero),
            Normalize(VSub(Transform(matrix, screen_x, screen_y, F(1)),
                           Transform(matrix, Zero, Zero, Zero))))

PrimaryRay(camera, x, y) ==
    RayThrough(camera_matrix(camera), ScreenX(Norm(x, WIDTH)),
               ScreenY(Norm(y, HEIGHT)))

(***************************************************************************)
(* Inputs.  Spheres, lights and rays are drawn from small catalogues:      *)
(* spheres on and off the x axis (one hit through its centre, one tangent  *)
(* to the axis, one missed by it, two with the same surface), ray origins  *)
(* outside, on and inside the spheres and one the smallest f32 step        *)
(* outside a sphere, unit and non-unit directions.  Two lights have main's *)
(* intensities 0.8 and 0.4; the third has 0.5.  A list of objects or       *)
(* lights holds no catalogue entry twice; the lists of Scene::intersect's  *)
(* queries come in every order.  No ray has the zero direction and no      *)
(* light sits on a surface, so no normalize divides by zero.               *)
(***************************************************************************)
MaxObjects == 2

MaxLights == 3

Red == Vec(1, 0, 0)

Green == Vec(0, 1, 0)

Blue == Vec(0, 0, 1)

ObjectCatalogue ==
    { Object_sphere(Vec(0, 0, 0), F(1), Red),
      Object_sphere(Vec(1, 0, 0), F(2), Green),
      Object_sphere(Vec(3, 0, 0), F(1), Blue),
      Object_sphere(Vec(0, 2, 0), F(2), Blue),
      Object_sphere(Vec(-3, 3, 0), F(1), Red),
      Object_sphere(Vec(0, 0, 0), F(1), Green) }

ShadedCatalogue ==
    << Object_sphere(Vec(0, 0, 0), F(1), Red),
       Object_sphere(Vec(4, 0, 0), F(1), Blue),
       Object_sphere(Vec(0, 2, 0), F(2), Green),
       Object_sphere(Vec(-1, 0, 0), F(2), Red) >>

MainLights ==
    << Light_new(Vec(-2, 0, 0), Frac(1, 2)),
       Light_new(Vec(-4, 0, 0), Frac(4, 5)),
       Light_new(Vec(2, 0, 0), Frac(2, 5)) >>

\* 1.0000001 on the x axis: the f32 next above 1.
JustAboveOne == <<Flt(Top \div 2 + 1, 1 - MantissaBits), Zero, Zero>>

Origins ==
    { Vec(-3, 0, 0), Vec(-1, 0, 0), Vec(0, 0, 0), Vec(2, 0, 0), Vec(4, 0, 0),
      JustAboveOne }

Directions ==
    { Vec(1, 0, 0), Vec(-1, 0, 0), Vec(0, 1, 0), Vec(0, 0, 1), Vec(2, 0, 0),
      Vec(2, 1, 0) }

Rays == { Ray_new(o, d) : o \in Origins, d \in Directions }

ShadedRays ==
    { Ray_new(o, d) : o \in { Vec(-3, 0, 0), Vec(0, 0, 0), Vec(2, 0, 0),
                              JustAboveOne },
                      d \in { Vec(1, 0, 0), Vec(-1, 0, 0), Vec(0, 1, 0),
                              Vec(2, 1, 0) } }

SeqsUpTo(S, n) ==
    UNION { { q \in [1..k -> S] : \A i, j \in 1..k : i # j => q[i] # q[j] } :
            k \in 0..n }

\* The sequences of at most n entries of q, in q's order.
SubSeqsUpTo(q, n) ==
    { [i \in 1..Len(f) |-> q[f[i]]] :
          f \in { g \in UNION { [1..k -> 1..Len(q)] : k \in 0..n } :
                      \A i \in 1..(Len(g) - 1) : g[i] < g[i + 1] } }

Min(i, j) == IF i < j THEN i ELSE j

Prefixes(q, n) == { SubSeq(q, 1, k) : k \in 0..Min(n, Len(q)) }

DefaultCamera == Camera_new(Vec(-3, 0, 0), Vec(0, 0, 0))

Cameras ==
    { DefaultCamera,
      Camera_new(Vec(-3, 2, -2), Vec(0, 0, 0)),
      Camera_new(Vec(-3, 0, 0), Vec(0, -1, 0)) }

VARIABLES
    scene,          \* the Scene: objects, camera, lights (lines 59-63)
    ray,            \* the ray of the query
    pc,             \* "call"/"returned" for a query; "render"/"done"/"panic" for main
    hits,           \* what each object's intersect returned for the ray
    found,          \* what Scene::intersect returned for it
    color,          \* what Scene::trace returned for it
    cast,           \* the build's float-to-u8 cast semantics
    x,              \* the render loop's column
    y,              \* the render loop's row
    index,          \* line 247: the index of the pixel being stored
    scene_buffer,   \* line 215: the bytes, index 0..BufferLen-1
    writes          \* per buffer index, the <<x, y, channel>> of each store to it

vars == <<scene, ray, pc, hits, found, color, cast, x, y, index,
          scene_buffer, writes>>

queryVars == <<ray, hits, found, color>>

renderVars == <<cast, x, y, index, scene_buffer, writes>>

NoRay == Ray_new(<< >>, << >>)

ObjectHits(objects, r) ==
    [i \in 1..Len(objects) |-> Object_intersect(objects[i], r)]

(***************************************************************************)
(* Queries: one call of Scene::intersect or Scene::trace on a drawn scene  *)
(* and ray.                                                                *)
(***************************************************************************)
IntersectQuery ==
    /\ pc = "call"
    /\ pc' = "returned"
    /\ hits' = ObjectHits(scene.objects, ray)
    /\ found' = Scene_intersect(scene.objects, ray)
    /\ UNCHANGED <<scene, ray, color>>
    /\ UNCHANGED renderVars

TraceQuery ==
    /\ pc = "call"
    /\ pc' = "returned"
    /\ hits' = ObjectHits(scene.objects, ray)
    /\ found' = Scene_intersect(scene.objects, ray)
    /\ color' = Scene_trace(scene.objects, scene.lights, ray)
    /\ UNCHANGED <<scene, ray>>
    /\ UNCHANGED renderVars

InitBuffer ==
    /\ x = 0
    /\ y = 0
    /\ index = 0
    /\ scene_buffer = [i \in 0..(BufferLen - 1) |-> 0]
    /\ writes = [i \in 0..(BufferLen - 1) |-> << >>]

InitQuery ==
    /\ pc = "call"
    /\ hits = << >>
    /\ found = None
    /\ color = Black
    /\ cast = "saturating"
    /\ InitBuffer

InitIntersect ==
    /\ \E objects \in SeqsUpTo(ObjectCatalogue, MaxObjects) :
           scene = Scene_new(objects, DefaultCamera, << >>)
    /\ ray \in Rays
    /\ InitQuery

NextIntersect == IntersectQuery

SpecIntersect == InitIntersect /\ [][NextIntersect]_vars

InitTrace ==
    /\ \E objects \in SubSeqsUpTo(ShadedCatalogue, MaxObjects),
          lights \in SubSeqsUpTo(MainLights, MaxLights) :
           scene = Scene_new(objects, DefaultCamera, lights)
    /\ ray \in ShadedRays
    /\ InitQuery

NextTrace == TraceQuery

SpecTrace == InitTrace /\ [][NextTrace]_vars

(***************************************************************************)
(* The render loop, lines 230-254.                                         *)
(***************************************************************************)
\* The three stores of lines 250-252 at index, index + 1, index + 2.
StorePixel(buffer, at, rgb, semantics) ==
    [i \in DOMAIN buffer |->
        IF i = at THEN Channel(rgb[1], semantics)
        ELSE IF i = at + 1 THEN Channel(rgb[2], semantics)
        ELSE IF i = at + 2 THEN Channel(rgb[3], semantics)
        ELSE buffer[i]]

\* The record of the stores: which pixel and channel went to which index.
LogPixel(log, at, px, py) ==
    [i \in DOMAIN log |->
        IF i >= at /\ i <= at + 2
        THEN Append(log[i], <<px, py, i - at>>)
        ELSE log[i]]

\* The loop body with the colour added to the one left by the pixel before.
BodyCarryColor(px, py) ==
    /\ ray' = PrimaryRay(scene.camera, px, py)
    /\ index' = PixelIndex(px, py)
    /\ color' = VAdd(color, Scene_trace(scene.objects, scene.lights, ray'))
    /\ scene_buffer' = StorePixel(scene_buffer, index', color', cast)
    /\ writes' = LogPixel(writes, index', px, py)
    /\ pc' = pc

\* The loop body for pixel (px, py): lines 232-252.  An index outside the
\* buffer panics (the bounds check of scene_buffer[index]).
Body(px, py) ==
    /\ ray' = PrimaryRay(scene.camera, px, py)
    /\ index' = PixelIndex(px, py)
    /\ color' = Scene_trace(scene.objects, scene.lights, ray')
    /\ IF index' + 2 < BufferLen
       THEN /\ scene_buffer' = StorePixel(scene_buffer, index', color', cast)
            /\ writes' = LogPixel(writes, index', px, py)
            /\ pc' = pc
       ELSE /\ pc' = "panic"
            /\ UNCHANGED <<scene_buffer, writes>>

\* One iteration of for y in 0..HEIGHT { for x in 0..WIDTH { ... } }.
RenderPixel ==
    /\ pc = "render"
    /\ y < HEIGHT
    /\ Body(x, y)
    /\ IF x + 1 < WIDTH THEN x' = x + 1 /\ y' = y
                        ELSE x' = 0 /\ y' = y + 1
    /\ UNCHANGED <<scene, hits, found, cast>>

\* The loop's exit, line 254.
RenderDone ==
    /\ pc = "render"
    /\ y = HEIGHT
    /\ pc' = "done"
    /\ UNCHANGED <<scene, ray, hits, found, color, cast, x, y, index,
                   scene_buffer, writes>>

InitRenderVars ==
    /\ ray = NoRay
    /\ pc = "render"
    /\ hits = << >>
    /\ found = None
    /\ color = Black
    /\ InitBuffer

RenderScenes ==
    { Scene_new(objects, camera, lights) :
          objects \in SubSeqsUpTo(ShadedCatalogue, MaxObjects),
          camera \in Cameras,
          lights \in Prefixes(MainLights, MaxLights) }

Init ==
    /\ scene \in RenderScenes
    /\ cast \in CastSemantics
    /\ InitRenderVars

Next == RenderPixel \/ RenderDone

Spec == Init /\ [][Next]_vars

(***************************************************************************)
(* The loop body run once per pixel in any order: what a render that       *)
(* schedules the pixels differently does.  The pixels done are those whose *)
(* first byte has been stored.  The pixels computed are those of the first *)
(* two columns and the last, in the first row and the last: every pixel of *)
(* a 3 x 2 image, and a sample with the four corners of a larger one.      *)
(***************************************************************************)
SamplePixels == ({0, 1, WIDTH - 1} \X {0, HEIGHT - 1}) \cap ((0..(WIDTH - 1)) \X (0..(HEIGHT - 1)))

RenderedPixels ==
    UNION { { <<writes[i][k][1], writes[i][k][2]>> : k \in 1..Len(writes[i]) } :
            i \in DOMAIN writes }

RenderAnyPixel ==
    /\ pc = "render"
    /\ \E pixel \in SamplePixels \ RenderedPixels : Body(pixel[1], pixel[2])
    /\ UNCHANGED <<scene, hits, found, cast, x, y>>

AllRendered == SamplePixels \subseteq RenderedPixels

RenderAnyDone ==
    /\ pc = "render"
    /\ AllRendered
    /\ pc' = "done"
    /\ UNCHANGED <<scene, ray, hits, found, color, cast, x, y, index,
                   scene_buffer, writes>>

AnyOrderScene ==
    Scene_new(<<Object_sphere(Vec(0, 0, 0), F(1), Red),
                Object_sphere(Vec(0, 2, 0), F(2), Green)>>,
              DefaultCamera,
              SubSeq(MainLights, 1, Min(MaxLights, Len(MainLights))))

InitAnyOrder ==
    /\ scene = AnyOrderScene
    /\ cast \in CastSemantics
    /\ InitRenderVars

NextAnyOrder == RenderAnyPixel \/ RenderAnyDone

SpecAnyOrder == InitAnyOrder /\ [][NextAnyOrder]_vars

(***************************************************************************)
(* The claims.  Helpers over the state of a returned query.                *)
(***************************************************************************)
Returned == pc = "returned"

Objects == 1..Len(scene.objects)

SphereOf(i) == scene.objects[i].shape.sphere

Hitters == { i \in Objects : hits[i].some }

DistanceOf(i) == hits[i].value.distance

DiscriminantAt(i) == Discriminant(SphereOf(i), ray)

T0(i) ==
    Root0(QuadA(SphereOf(i), ray), QuadB(SphereOf(i), ray), Sqrt(DiscriminantAt(i)))

T1(i) ==
    Root1(QuadA(SphereOf(i), ray), QuadB(SphereOf(i), ray), Sqrt(DiscriminantAt(i)))

\* t is one of the two roots the code computes for object i and the ray.
IsRoot(i, t) == t = T0(i) \/ t = T1(i)

\* C1: Scene::intersect returns None exactly when no object's intersect
\* returns a hit; otherwise it returns the hit of an object, together with
\* that object, whose distance is the minimum over the objects hit, and
\* among the objects at that minimum the one that comes first in the list.
C1_NearestFirstInOrder ==
    Returned =>
        /\ (found = None) <=> (Hitters = {})
        /\ found.some =>
               /\ found.value.object \in Hitters
               /\ found.value.hit = hits[found.value.object].value
               /\ \A j \in Hitters :
                      Le(found.value.hit.distance, DistanceOf(j))
               /\ \A j \in Hitters :
                      j < found.value.object =>
                          Lt(found.value.hit.distance, DistanceOf(j))

\* Two objects are hit at the same, minimal distance and the earlier is returned.
C1_Witness ==
    /\ Returned
    /\ found.some
    /\ \E j \in Hitters :
           /\ j > found.value.object
           /\ DistanceOf(j) = found.value.hit.distance

\* C2 as stated: every Hit's distance is a strictly positive root of the
\* quadratic; a root equal to zero is never reported.
C2_StrictlyPositiveRoot ==
    Returned =>
        \A i \in Hitters : Lt(Zero, DistanceOf(i)) /\ IsRoot(i, DistanceOf(i))

\* C2 amended: every Hit returned by Sphere::intersect, and the one
\* Scene::intersect returns, has a distance that is one of the two roots
\* computed for the quadratic and is not negative; a negative root is never
\* reported, a root equal to zero is.
C2_NonNegativeRoot ==
    Returned =>
        /\ \A i \in Hitters :
               /\ Le(Zero, DistanceOf(i))
               /\ IsRoot(i, DistanceOf(i))
        /\ found.some => Le(Zero, found.value.hit.distance)

\* The origin is on a sphere's surface and the ray leaves it: t1 = 0 is reported.
C2_Witness ==
    /\ Returned
    /\ \E i \in Hitters :
           /\ QuadC(SphereOf(i), ray) = Zero
           /\ Lt(T0(i), Zero)
           /\ T1(i) = Zero
           /\ DistanceOf(i) = Zero

\* C3: Sphere::intersect returns no hit whenever the discriminant is <= 0,
\* a tangent ray (discriminant 0) included; a hit has a discriminant > 0.
C3_NoHitUnlessDiscriminantPositive ==
    Returned =>
        \A i \in Objects :
            /\ Le(DiscriminantAt(i), Zero) => hits[i] = None
            /\ hits[i].some => Lt(Zero, DiscriminantAt(i))

\* A ray tangent to a sphere in front of it, reported as a miss.
C3_Witness ==
    /\ Returned
    /\ \E i \in Objects :
           /\ DiscriminantAt(i) = Zero
           /\ Lt(QuadB(SphereOf(i), ray), Zero)
           /\ hits[i] = None

\* C4: with a discriminant > 0 the roots are t0 <= t1; no hit when both are
\* negative; otherwise the distance is t0 when t0 >= 0 and t1 when t0 < 0.
C4_RootSelection ==
    Returned =>
        \A i \in Objects :
            Lt(Zero, DiscriminantAt(i)) =>
                /\ Le(T0(i), T1(i))
                /\ (Lt(T0(i), Zero) /\ Lt(T1(i), Zero)) => hits[i] = None
                /\ ~(Lt(T0(i), Zero) /\ Lt(T1(i), Zero)) =>
                       /\ hits[i].some
                       /\ DistanceOf(i) =
                              IF Le(Zero, T0(i)) THEN T0(i) ELSE T1(i)

\* The origin is on a sphere's surface and the ray enters it: t0 = 0 is the
\* distance, not t1.
C4_Witness ==
    /\ Returned
    /\ \E i \in Hitters :
           /\ T0(i) = Zero
           /\ Lt(Zero, T1(i))
           /\ DistanceOf(i) = Zero

(***************************************************************************)
(* Helpers over the state of a returned Scene::trace.                      *)
(***************************************************************************)
Lights == 1..Len(scene.lights)

\* The shadow-ray origin and the shadow ray of light k for the primary hit.
PrimaryHitPoint == HitPoint(ray, found.value.hit)

ShadowRayOf(k) ==
    Ray_new(PrimaryHitPoint, ShadowRayDirection(PrimaryHitPoint, scene.lights[k]))

ShadowHit(i, k) == Object_intersect(scene.objects[i], ShadowRayOf(k))

DistanceToLight(k) ==
    Sqrt(NormSquared(VSub(scene.lights[k].position, PrimaryHitPoint)))

\* Some object, whichever and wherever along the shadow ray, is hit by it.
OccludedBy(k) == \E i \in Objects : ShadowHit(i, k).some

\* max(0, normal . lightDir) * material.color * light.intensity, or zero in shadow.
Contribution(k) ==
    IF OccludedBy(k) THEN Black
    ELSE Scale(scene.lights[k].intensity,
               Scale(Max(Zero, Dot(found.value.hit.normal, ShadowRayOf(k).direction)),
                     scene.objects[found.value.object].material.color))

RECURSIVE SumContributions(_)
SumContributions(k) ==
    IF k = 0 THEN Black ELSE VAdd(SumContributions(k - 1), Contribution(k))

\* The colour Scene::trace returns with light k alone.
AloneColor(k) == Scene_trace(scene.objects, <<scene.lights[k]>>, ray)

RECURSIVE SumAlone(_)
SumAlone(k) == IF k = 0 THEN Black ELSE VAdd(SumAlone(k - 1), AloneColor(k))

(***************************************************************************)
(* The geometry of a ray and a sphere in exact arithmetic.  Every          *)
(* coordinate of the catalogues is a multiple of 2^-23 below 16 in size,   *)
(* so it is an integer number of steps of 2^-23 (Fixed); differences are   *)
(* integers below 2^28, and a product of two of them is kept as            *)
(* hi * 2^28 + lo with 0 <= lo < 2^28 (a wide integer).                    *)
(***************************************************************************)
IsFixed(p) ==
    p.m = 0 \/ (p.e >= 1 - MantissaBits /\ p.e <= 4 - MantissaBits)

Fixed(p) == p.m * 2^(p.e + MantissaBits - 1)

WideBase == 2^28

WideHalf == 2^14

Wide(hi, lo) == [hi |-> hi, lo |-> lo]

WideNeg(w) ==
    IF w.lo = 0 THEN Wide(-w.hi, 0) ELSE Wide(-w.hi - 1, WideBase - w.lo)

WideAdd(v, w) ==
    Wide(v.hi + w.hi + (v.lo + w.lo) \div WideBase, (v.lo + w.lo) % WideBase)

WideJoin(high, cross, low) ==
    Wide(high + cross \div WideHalf
              + ((cross % WideHalf) * WideHalf + low) \div WideBase,
         ((cross % WideHalf) * WideHalf + low) % WideBase)

WideMulNat(a, b) ==
    WideJoin((a \div WideHalf) * (b \div WideHalf),
             (a \div WideHalf) * (b % WideHalf) + (a % WideHalf) * (b \div WideHalf),
             (a % WideHalf) * (b % WideHalf))

WideMul(a, b) ==
    IF (a < 0) # (b < 0) THEN WideNeg(WideMulNat(Abs(a), Abs(b)))
    ELSE WideMulNat(Abs(a), Abs(b))

WideDot(u, v) ==
    WideAdd(WideAdd(WideMul(u[1], v[1]), WideMul(u[2], v[2])), WideMul(u[3], v[3]))

WidePositive(w) == w.hi > 0 \/ (w.hi = 0 /\ w.lo > 0)

FixedVec(v) == <<Fixed(v[1]), Fixed(v[2]), Fixed(v[3])>>

\* origin - centre, in steps of 2^-23.
ExactOc(i) ==
    <<Fixed(ray.origin[1]) - Fixed(SphereOf(i).position[1]),
      Fixed(ray.origin[2]) - Fixed(SphereOf(i).position[2]),
      Fixed(ray.origin[3]) - Fixed(SphereOf(i).position[3])>>

AllFixed(i) ==
    /\ \A k \in 1..3 : /\ IsFixed(ray.origin[k])
                       /\ IsFixed(ray.direction[k])
                       /\ IsFixed(SphereOf(i).position[k])
    /\ IsFixed(SphereOf(i).radius)

\* The origin is outside object i's sphere, |origin - centre|^2 > radius^2,
\* and the direction points away from it, (origin - centre) . direction >= 0.
OutsideAndAway(i) ==
    /\ AllFixed(i)
    /\ WidePositive(WideAdd(WideDot(ExactOc(i), ExactOc(i)),
                            WideNeg(WideMul(Fixed(SphereOf(i).radius),
                                            Fixed(SphereOf(i).radius)))))
    /\ WideDot(ExactOc(i), FixedVec(ray.direction)).hi >= 0

\* C5: for a ray whose origin is outside every sphere of the scene and whose
\* direction points away from every sphere, Scene::intersect returns no hit
\* and Scene::trace returns black.
C5_AwayFromAllIsBlack ==
    (Returned /\ \A i \in Objects : OutsideAndAway(i)) =>
        /\ found = None
        /\ color = Black

\* C6: each light's shadow ray goes from the biased hit point toward the
\* light through the same intersection over all objects; a light whose
\* shadow ray hits any object, at any distance, contributes zero; a light
\* whose shadow ray hits nothing contributes
\* max(0, normal . lightDir) * material.color * light.intensity.
C6_HardShadowNoDistanceLimit ==
    (Returned /\ found.some) => color = SumContributions(Len(scene.lights))

\* The only light lies between the hit point and the only object its
\* shadow ray hits, and contributes nothing.
C6_Witness ==
    /\ Returned
    /\ found.some
    /\ Len(scene.lights) = 1
    /\ OccludedBy(1)
    /\ \A i \in Objects :
           ShadowHit(i, 1).some =>
               Lt(DistanceToLight(1), ShadowHit(i, 1).value.distance)
    /\ color = Black

\* The colour Scene::trace returns with the lights j and k, in that order.
PairColor(j, k) ==
    Scene_trace(scene.objects, <<scene.lights[j], scene.lights[k]>>, ray)

\* The lights in the opposite order.
Reversed == [k \in Lights |-> scene.lights[Len(scene.lights) + 1 - k]]

\* The colour for two lights is the sum of the colours for each alone.
PairsAdd ==
    \A j, k \in Lights :
        j # k => PairColor(j, k) = VAdd(AloneColor(j), AloneColor(k))

\* With no light, or no primary hit, the colour is black.
BlackWithout == (scene.lights = << >> \/ found = None) => color = Black

\* C7 as stated: the colour for two lights is the component-wise sum of the
\* colours for each of them alone; with no light, or no primary hit, it is
\* black; and the colour does not depend on the order of the lights.
C7_AdditiveWhateverTheOrder ==
    Returned =>
        /\ PairsAdd
        /\ BlackWithout
        /\ color = Scene_trace(scene.objects, Reversed, ray)

\* C7 amended: the colour for two lights is the component-wise sum of the
\* colours for each of them alone, in either order of the two; the colour
\* for a longer list is the f32 sum, taken in the list's order, of the
\* colours for each of its lights alone, which another order of the lights
\* can round differently; with no light, or no primary hit, it is black.
C7_AdditiveInListOrder ==
    Returned =>
        /\ PairsAdd
        /\ BlackWithout
        /\ color = SumAlone(Len(scene.lights))
        /\ \A j, k \in Lights : j # k => PairColor(j, k) = PairColor(k, j)
        /\ Len(scene.lights) <= 2 =>
               color = Scene_trace(scene.objects, Reversed, ray)

\* Two lights that both reach the hit point.
C7_Witness ==
    /\ Returned
    /\ found.some
    /\ Len(scene.lights) = 2
    /\ AloneColor(1) # Black
    /\ AloneColor(2) # Black
    /\ color = VAdd(AloneColor(1), AloneColor(2))
    /\ color = PairColor(2, 1)

(***************************************************************************)
(* Helpers over the state of the render loop.                              *)
(***************************************************************************)
Columns == 0..(WIDTH - 1)

Rows == 0..(HEIGHT - 1)

\* A pixel has been traced and stored.
Stored == pc \in {"render", "done"} /\ ray # NoRay

\* floor(component k of the last traced colour * 255); no component is negative.
FloorScaled(k) == Whole(Mul(color[k], F(255)))

\* The byte the loop body stores for channel k (0, 1, 2) of pixel (px, py).
PixelByte(px, py, k) ==
    Channel(Scene_trace(scene.objects, scene.lights,
                        PrimaryRay(scene.camera, px, py))[k + 1], cast)

\* C8: the buffer has WIDTH*HEIGHT*3 bytes; pixel (x, y) goes to indices
\* (y*WIDTH + x)*3, +1, +2 as R, G, B, rows from the top; every store is
\* inside the buffer; no index is stored twice, and when the loop ends
\* every index has been stored once.
C8_RowMajorEveryIndexOnce ==
    /\ DOMAIN scene_buffer = 0..(WIDTH * HEIGHT * 3 - 1)
    /\ pc # "panic"
    /\ \A i \in DOMAIN writes :
           /\ Len(writes[i]) <= 1
           /\ Len(writes[i]) = 1 <=> i < (y * WIDTH + x) * 3
           /\ \A n \in 1..Len(writes[i]) :
                  /\ writes[i][n][1] \in Columns
                  /\ writes[i][n][2] \in Rows
                  /\ writes[i][n][3] \in 0..2
                  /\ i = (writes[i][n][2] * WIDTH + writes[i][n][1]) * 3
                             + writes[i][n][3]
    /\ Stored => \A k \in 0..2 : scene_buffer[index + k] = Channel(color[k + 1], cast)
    /\ pc = "done" => \A i \in DOMAIN writes : Len(writes[i]) = 1

\* The loop has ended with every index stored once and a lit pixel in the image.
C8_Witness ==
    /\ pc = "done"
    /\ \A i \in DOMAIN writes : Len(writes[i]) = 1
    /\ \E i \in DOMAIN scene_buffer : scene_buffer[i] > 0

C10_AnyOrderSameBuffer ==
    /\ scene = AnyOrderScene
    /\ \A i \in DOMAIN writes : writes[i] = << >> => scene_buffer[i] = 0
    /\ pc = "done" =>
           \A pixel \in SamplePixels, k \in 0..2 :
               scene_buffer[(pixel[2] * WIDTH + pixel[1]) * 3 + k]
                   = PixelByte(pixel[1], pixel[2], k)

\* The pixels are done, the last one stored not being the last of the
\* row-major order, and the image is not black.
C10_Witness ==
    /\ pc = "done"
    /\ index # (WIDTH * HEIGHT - 1) * 3
    /\ \E i \in DOMAIN scene_buffer : scene_buffer[i] > 0
====
